---- MODULE Spec2Model ----
(***************************************************************************)
(* Sequence Bloom Tree of sbt.py: the array-backed tree (SBT.nodes), its   *)
(* insertion (add_node), its search (find) and its persistence (save,      *)
(* load), over Bloom filters modelled bit by bit.                          *)
(***************************************************************************)
EXTENDS Integers, Sequences, FiniteSets, TLC

VARIABLES factory, nodes, leaves, files, loaded, ret

vars == <<factory, nodes, leaves, files, loaded, ret>>

(* ---------------------------- bounds ----------------------------------- *)

\* Largest number of add_node calls on one tree.
MaxLeaves == 5

(* ------------------------- array helpers ------------------------------- *)

\* Python's None, as a record so that it compares with node records.
None == [kind |-> "None"]

\* Python lists are modelled as functions over 0 .. len-1.
ArrLen(a) == Cardinality(DOMAIN a)

SetMin(S) == CHOOSE m \in S : \A n \in S : m <= n

\* a + [None] * n
ArrExtend(a, n) ==
  [i \in 0 .. (ArrLen(a) + n - 1) |-> IF i < ArrLen(a) THEN a[i] ELSE None]

IsLeaf(n) == n.kind = "Leaf"

IsNode(n) == n.kind = "Node"

(* ------------------- k-mers and the Bloom filter ----------------------- *)

ksize == 5

twobit_repr(ch) == CASE ch = "A" -> 0 [] ch = "T" -> 1 [] ch = "C" -> 2 [] OTHER -> 3

twobit_comp(ch) == CASE ch = "A" -> 1 [] ch = "T" -> 0 [] ch = "C" -> 3 [] OTHER -> 2

RECURSIVE HashFwd(_, _)
HashFwd(kmer, n) ==
  IF n = 0 THEN 0 ELSE HashFwd(kmer, n - 1) * 4 + twobit_repr(kmer[n])

RECURSIVE HashRev(_, _)
HashRev(kmer, n) ==
  IF n = 0 THEN 0
  ELSE HashRev(kmer, n - 1) * 4 + twobit_comp(kmer[Len(kmer) - n + 1])

\* The hash of a k-mer: the smaller of its two-bit encoding and that of its
\* reverse complement.
KmerHash(kmer) ==
  LET f == HashFwd(kmer, Len(kmer))
      r == HashRev(kmer, Len(kmer))
  IN IF f < r THEN f ELSE r

AAAAA == <<"A", "A", "A", "A", "A">>
AAAAT == <<"A", "A", "A", "A", "T">>
AAAAC == <<"A", "A", "A", "A", "C">>
AAAAG == <<"A", "A", "A", "A", "G">>
CAAAA == <<"C", "A", "A", "A", "A">>
GAAAA == <<"G", "A", "A", "A", "A">>
GAAAAAT == <<"G", "A", "A", "A", "A", "A", "T">>

Kmers == {AAAAA, AAAAT, AAAAC, AAAAG, CAAAA, GAAAA}

\* The hashes of the k-mers above, computed once.
HashOf == [k \in Kmers |-> KmerHash(k)]

IsPrime(n) == n > 1 /\ \A d \in 2 .. (n - 1) : n % d # 0

\* The n largest odd primes below x, largest first: the table sizes of a
\* nodegraph built with starting size x and n tables.
RECURSIVE PrimesFrom(_, _)
PrimesFrom(i, n) ==
  IF n = 0 \/ i <= 0 THEN <<>>
  ELSE IF IsPrime(i) THEN <<i>> \o PrimesFrom(i - 2, n - 1)
       ELSE PrimesFrom(i - 2, n)

PrimesNear(n, x) ==
  LET i == x - 1 IN PrimesFrom(IF i % 2 = 0 THEN i - 1 ELSE i, n)

\* GraphFactory(ksize, starting_size, n_tables)
GraphFactory(k, starting_size, n_tables) ==
  [ksize |-> k, starting_size |-> starting_size, n_tables |-> n_tables]

\* factory.create_nodegraph(): an empty filter; bits is the set of
\* <<table, index>> pairs that are set.
create_nodegraph(f) ==
  [ksize |-> f.ksize, sizes |-> PrimesNear(f.n_tables, f.starting_size), bits |-> {}]

KmerBits(g, kmer) ==
  LET h == IF kmer \in DOMAIN HashOf THEN HashOf[kmer] ELSE KmerHash(kmer)
  IN {<<t, h % g.sizes[t]>> : t \in 1 .. Len(g.sizes)}

\* graph.count(kmer)
count(g, kmer) == [g EXCEPT !.bits = @ \cup KmerBits(g, kmer)]

\* graph.get(kmer)
get(g, kmer) == KmerBits(g, kmer) \subseteq g.bits

\* graph.update(other): bitwise or of the tables
update(g, other) == [g EXCEPT !.bits = @ \cup other.bits]

RECURSIVE CountAll(_, _)
CountAll(g, ks) ==
  IF ks = {} THEN g
  ELSE LET k == CHOOSE k \in ks : TRUE IN CountAll(count(g, k), ks \ {k})

(* --------------------------- the inputs -------------------------------- *)

\* The factory of the tests, and a small one whose filters have false
\* positives.
TestFactory == GraphFactory(ksize, 100, 3)

SmallFactory == GraphFactory(ksize, 6, 2)

Factories == {TestFactory, SmallFactory}

\* What the caller builds leaves from: metadata, an optional name ("" is
\* Python's name=None) and the k-mers counted into the leaf's graph.
LeafA == [metadata |-> "a", name |-> "", kmers |-> {AAAAA, AAAAT, AAAAC}]
LeafB == [metadata |-> "b", name |-> "", kmers |-> {AAAAA, AAAAT, AAAAG}]
LeafC == [metadata |-> "c", name |-> "", kmers |-> {AAAAA, AAAAT, CAAAA}]
LeafD == [metadata |-> "d", name |-> "", kmers |-> {AAAAA, CAAAA, GAAAA}]
LeafE == [metadata |-> "e", name |-> "", kmers |-> {AAAAA, AAAAT, GAAAA}]
\* A leaf created with a name that differs from its metadata (and equals
\* the name of leaf a).
LeafF == [metadata |-> "f", name |-> "a", kmers |-> {AAAAG, GAAAA}]

LeafInputs == {LeafA, LeafB, LeafC, LeafD, LeafE, LeafF}

(* ---------------------------- the nodes -------------------------------- *)

\* Node(factory, name)
Node(f, name) == [kind |-> "Node", name |-> name, graph |-> create_nodegraph(f)]

\* Leaf(metadata, nodegraph, name)
Leaf(metadata, nodegraph, name) ==
  [kind |-> "Leaf", metadata |-> metadata,
   name |-> IF name = "" THEN metadata ELSE name,
   graph |-> nodegraph]

MakeLeaf(f, in) == Leaf(in.metadata, CountAll(create_nodegraph(f), in.kmers), in.name)

\* The leaves the caller can build, per factory.
LeafOf == [f \in Factories |-> [in \in LeafInputs |-> MakeLeaf(f, in)]]

(* ------------------------ parent and children -------------------------- *)

\* SBT.parent(pos).pos, for pos > 0
ParentPos(pos) == (pos - 1) \div 2

\* SBT.children(pos): the two positions
ChildPos(pos) == <<2 * pos + 1, 2 * (pos + 1)>>

(* ----------------------------- add_node -------------------------------- *)

\* The slot add_node chooses: the first None, or the first new slot after
\* extending the array by current_size + 1.
HasNoneNever(arr) == FALSE

HasNone(arr) == \E i \in DOMAIN arr : arr[i] = None

ExtendMissingOne(arr) == IF HasNone(arr) THEN arr ELSE ArrExtend(arr, ArrLen(arr))

Extended(arr) == IF HasNone(arr) THEN arr ELSE ArrExtend(arr, ArrLen(arr) + 1)

ChosenPosLastSlot(arr) ==
  IF HasNone(arr) THEN SetMin({i \in DOMAIN arr : arr[i] = None}) ELSE 2 * ArrLen(arr)

\* pos: self.nodes.index(None), or current_size once the array is extended.
ChosenPos(arr) ==
  IF HasNone(arr) THEN SetMin({i \in DOMAIN arr : arr[i] = None}) ELSE ArrLen(arr)

NewInternalForgetsOld(f, ppos, pnode, node) ==
  LET n == Node(f, "internal." \o ToString(ppos))
  IN [n EXCEPT !.graph = update(@, node.graph)]

NewInternalUnnumbered(f, ppos, pnode, node) ==
  LET n == Node(f, "internal")
  IN [n EXCEPT !.graph = update(update(@, pnode.graph), node.graph)]

\* The internal node that takes the place of the leaf at ppos.
NewInternal(f, ppos, pnode, node) ==
  LET n == Node(f, "internal." \o ToString(ppos))
  IN [n EXCEPT !.graph = update(update(@, pnode.graph), node.graph)]

AttachSwapped(arr, ppos, n, pnode, node) ==
  [arr EXCEPT ![ppos] = n, ![ChildPos(ppos)[1]] = node, ![ChildPos(ppos)[2]] = pnode]

AttachUpdatesOldLeaf(arr, ppos, n, pnode, node) ==
  [arr EXCEPT ![ppos] = n,
              ![ChildPos(ppos)[1]] = [pnode EXCEPT !.graph = update(@, node.graph)],
              ![ChildPos(ppos)[2]] = node]

AttachKeepsOldInPlace(arr, ppos, n, pnode, node) ==
  [arr EXCEPT ![ppos] = n, ![ChildPos(ppos)[2]] = node]

AttachNewTwice(arr, ppos, n, pnode, node) ==
  [arr EXCEPT ![ppos] = n, ![ChildPos(ppos)[1]] = node, ![ChildPos(ppos)[2]] = node]

\* nodes[p.pos] = n; nodes[c1.pos] = p.node; nodes[c2.pos] = node
Attach(arr, ppos, n, pnode, node) ==
  [arr EXCEPT ![ppos] = n, ![ChildPos(ppos)[1]] = pnode, ![ChildPos(ppos)[2]] = node]

UpdateParentsEveryNode(arr, pos, g) ==
  [i \in DOMAIN arr |->
     IF IsNode(arr[i]) THEN [arr[i] EXCEPT !.graph = update(@, g)] ELSE arr[i]]

UpdateParentsSkipped(arr, pos, g) == arr

\* "update all parents!": the loop over the ancestors of position pos.
RECURSIVE UpdateParents(_, _, _)
UpdateParents(arr, pos, g) ==
  IF pos = 0 THEN arr
  ELSE LET pp == ParentPos(pos)
       IN UpdateParents([arr EXCEPT ![pp].graph = update(@, g)], pp, g)

\* SBT.add_node(node) on the array arr: the array afterwards and the
\* exception raised, if any.
add_node(f, arr, node) ==
  LET ext  == Extended(arr)
      pos  == ChosenPos(arr)
      ppos == ParentPos(pos)
      c    == ChildPos(ppos)
  IN IF pos = 0 THEN [nodes |-> [ext EXCEPT ![0] = node], raised |-> "none"]
     ELSE IF c[1] \notin DOMAIN ext \/ c[2] \notin DOMAIN ext
          THEN [nodes |-> ext, raised |-> "IndexError"]
     ELSE IF IsLeaf(ext[ppos])
          THEN LET n == NewInternal(f, ppos, ext[ppos], node)
                   a == Attach(ext, ppos, n, ext[ppos], node)
               IN [nodes |-> UpdateParents(a, ppos, node.graph), raised |-> "none"]
     ELSE [nodes |-> ext, raised |-> "none"]

(* ------------------------------- find ---------------------------------- *)

\* kmers(k, seq): the windows of length k
kmers(k, seq) == [i \in 1 .. (Len(seq) - k + 1) |-> SubSeq(seq, i, i + k - 1)]

\* search_kmer(obj, seq)
search_kmer(obj, seq) == get(obj.graph, seq)

search_transcript_whole_length(node, seq, tenths) ==
  LET ks == kmers(ksize, seq)
      present == Cardinality({i \in DOMAIN ks : get(node.graph, ks[i])})
  IN present >= (tenths * Len(seq)) \div 10

\* search_transcript(node, seq, threshold), the threshold in tenths.
search_transcript(node, seq, tenths) ==
  LET ks == kmers(ksize, seq)
      present == Cardinality({i \in DOMAIN ks : get(node.graph, ks[i])})
  IN present >= (tenths * (Len(seq) - ksize + 1)) \div 10

\* The calls find is made with.
Queries ==
  [fn : {"search_kmer"}, seq : Kmers, threshold : {0}]
  \cup {[fn |-> "search_transcript", seq |-> AAAAT, threshold |-> 10],
        [fn |-> "search_transcript", seq |-> GAAAAAT, threshold |-> 6],
        [fn |-> "search_transcript", seq |-> GAAAA, threshold |-> 10]}

search_fn(node, q) ==
  IF q.fn = "search_kmer" THEN search_kmer(node, q.seq)
  ELSE search_transcript(node, q.seq, q.threshold)

RECURSIVE FindLoopStack(_, _, _, _, _)
FindLoopStack(arr, queue, visited, matches, q) ==
  IF queue = <<>> THEN [value |-> matches, raised |-> "none"]
  ELSE LET node_p == queue[Len(queue)]
           rest   == SubSeq(queue, 1, Len(queue) - 1)
           node_g == arr[node_p]
           c      == ChildPos(node_p)
       IN IF node_p \in visited \/ node_g = None
          THEN FindLoopStack(arr, rest, visited, matches, q)
          ELSE IF ~search_fn(node_g, q)
          THEN FindLoopStack(arr, rest, visited \cup {node_p}, matches, q)
          ELSE IF IsLeaf(node_g)
          THEN FindLoopStack(arr, rest, visited \cup {node_p}, Append(matches, node_g), q)
          ELSE IF c[1] \notin DOMAIN arr \/ c[2] \notin DOMAIN arr
          THEN [value |-> <<>>, raised |-> "IndexError"]
          ELSE FindLoopStack(arr, rest \o c, visited \cup {node_p}, matches, q)

\* The while loop of find: queue.pop(0), the visited set, the matches.
RECURSIVE FindLoop(_, _, _, _, _)
FindLoop(arr, queue, visited, matches, q) ==
  IF queue = <<>> THEN [value |-> matches, raised |-> "none"]
  ELSE LET node_p == Head(queue)
           rest   == Tail(queue)
           node_g == arr[node_p]
           c      == ChildPos(node_p)
       IN IF node_p \in visited \/ node_g = None
          THEN FindLoop(arr, rest, visited, matches, q)
          ELSE IF ~search_fn(node_g, q)
          THEN FindLoop(arr, rest, visited \cup {node_p}, matches, q)
          ELSE IF IsLeaf(node_g)
          THEN FindLoop(arr, rest, visited \cup {node_p}, Append(matches, node_g), q)
          ELSE IF c[1] \notin DOMAIN arr \/ c[2] \notin DOMAIN arr
          THEN [value |-> <<>>, raised |-> "IndexError"]
          ELSE FindLoop(arr, rest \o c, visited \cup {node_p}, matches, q)

\* SBT.find(search_fn, *args)
find(arr, q) == FindLoop(arr, <<0>>, {}, <<>>, q)

(* --------------------------- save and load ----------------------------- *)

\* The tag save is called with.
Tag == "t"

\* os.path.join('.sbt.' + tag, '.'.join([tag, node.name, 'sbt']))
FilterFile(tag, name) == ".sbt." \o tag \o "/" \o tag \o "." \o name \o ".sbt"

\* fn = tag + '.sbt.json'
ManifestFile(tag) == tag \o ".sbt.json"

\* The file system: a function from file names to contents.
WriteFile(fs, fn, content) ==
  [x \in (DOMAIN fs) \cup {fn} |-> IF x = fn THEN content ELSE fs[x]]

\* The record save appends to structure for one node.
SaveData(tag, node) ==
  IF node = None THEN None
  ELSE IF IsLeaf(node)
  THEN [filename |-> FilterFile(tag, node.name), name |-> node.name,
        metadata |-> node.metadata]
  ELSE [filename |-> FilterFile(tag, node.name), name |-> node.name]

\* The loop of save from position i on: node.graph.save(data['filename'])
\* for every node, in array order.
RECURSIVE SaveGraphs(_, _, _, _)
SaveGraphs(fs, arr, tag, i) ==
  IF i >= ArrLen(arr) THEN fs
  ELSE IF arr[i] = None THEN SaveGraphs(fs, arr, tag, i + 1)
  ELSE SaveGraphs(WriteFile(fs, FilterFile(tag, arr[i].name), arr[i].graph),
                  arr, tag, i + 1)

\* SBT.save(tag): the file system afterwards.
save(fs, arr, tag) ==
  WriteFile(SaveGraphs(fs, arr, tag, 0), ManifestFile(tag),
            [i \in DOMAIN arr |-> SaveData(tag, arr[i])])

HasKey(rec, key) == key \in DOMAIN rec

\* The node load builds from one record and its loaded graph.
LoadNode(f, rec, graph) ==
  IF HasKey(rec, "metadata") THEN Leaf(rec.metadata, graph, "")
  ELSE [Node(f, rec.name) EXCEPT !.graph = graph]

\* The exception the loop of load raises at one record, if any.
LoadRaises(fs, rec) ==
  IF rec = None THEN "none"
  ELSE IF ~HasKey(rec, "filename") THEN "KeyError"
  ELSE IF rec.filename \notin DOMAIN fs THEN "IOError"
  ELSE IF ~HasKey(rec, "metadata") /\ ~HasKey(rec, "name") THEN "KeyError"
  ELSE "none"

loadSkipsEmptyCheck(fs, sbt_fn) ==
  IF sbt_fn \notin DOMAIN fs THEN [raised |-> "IOError", value |-> None]
  ELSE LET recs == fs[sbt_fn]
       IN IF recs[0] = None
          THEN [raised |-> "TypeError", value |-> None]
          ELSE [raised |-> "none", value |-> None]

\* SBT.load(sbt_fn): the exception raised, or the tree returned.
load(fs, sbt_fn) ==
  IF sbt_fn \notin DOMAIN fs THEN [raised |-> "IOError", value |-> None]
  ELSE LET recs == fs[sbt_fn]
       IN IF recs[0] = None
          THEN [raised |-> "ValueError: Empty tree!", value |-> None]
          ELSE IF ~HasKey(recs[0], "filename")
          THEN [raised |-> "KeyError", value |-> None]
          ELSE IF recs[0].filename \notin DOMAIN fs
          THEN [raised |-> "IOError", value |-> None]
          ELSE LET info == fs[recs[0].filename]
                   f    == GraphFactory(info.ksize, info.sizes[1], Len(info.sizes))
                   bad  == {i \in DOMAIN recs : LoadRaises(fs, recs[i]) # "none"}
               IN IF bad # {}
                  THEN [raised |-> LoadRaises(fs, recs[SetMin(bad)]), value |-> None]
                  ELSE [raised |-> "none",
                        value |-> [kind |-> "SBT", factory |-> f,
                                   nodes |-> [i \in DOMAIN recs |->
                                     IF recs[i] = None THEN None
                                     ELSE LoadNode(f, recs[i], fs[recs[i].filename])]]]

(* ------------------------------ actions -------------------------------- *)

Range(s) == {s[i] : i \in DOMAIN s}

NoFiles == [x \in {} |-> None]

\* SBT(factory), on an empty file system.
Init ==
  /\ factory \in Factories
  /\ nodes = [i \in {0} |-> None]
  /\ leaves = <<>>
  /\ files = NoFiles
  /\ loaded = None
  /\ ret = [op |-> "init", raised |-> "none", value |-> None, arg |-> None]

\* root.add_node(leaf) with a leaf not yet in the tree.  As in build-sbt.py
\* the tree is saved once every leaf is in: no insertion follows a save.
AddNode ==
  /\ Len(leaves) < MaxLeaves
  /\ ManifestFile(Tag) \notin DOMAIN files
  /\ \E in \in LeafInputs :
       LET leaf == LeafOf[factory][in]
           r    == add_node(factory, nodes, leaf)
       IN /\ leaf \notin Range(leaves)
          /\ nodes' = r.nodes
          /\ leaves' = Append(leaves, leaf)
          /\ ret' = [op |-> "add_node", raised |-> r.raised, value |-> None,
                     arg |-> leaf]
  /\ UNCHANGED <<factory, files, loaded>>

\* root.find(search_fn, *args)
Find ==
  /\ \E q \in Queries :
       LET r == find(nodes, q)
       IN ret' = [op |-> "find", raised |-> r.raised, value |-> r.value, arg |-> q]
  /\ UNCHANGED <<factory, nodes, leaves, files, loaded>>

\* root.save(tag)
Save ==
  /\ files' = save(files, nodes, Tag)
  /\ ret' = [op |-> "save", raised |-> "none", value |-> ManifestFile(Tag),
             arg |-> Tag]
  /\ UNCHANGED <<factory, nodes, leaves, loaded>>

\* tree = SBT.load(sbt_fn)
Load ==
  /\ LET r == load(files, ManifestFile(Tag))
     IN /\ loaded' = IF r.raised = "none" THEN r.value ELSE loaded
        /\ ret' = [op |-> "load", raised |-> r.raised, value |-> r.value,
                   arg |-> ManifestFile(Tag)]
  /\ UNCHANGED <<factory, nodes, leaves, files>>

\* tree.find(search_fn, *args) on the loaded tree
FindLoaded ==
  /\ loaded # None
  /\ \E q \in Queries :
       LET r == find(loaded.nodes, q)
       IN ret' = [op |-> "find_loaded", raised |-> r.raised, value |-> r.value,
                  arg |-> q]
  /\ UNCHANGED <<factory, nodes, leaves, files, loaded>>

\* Building and searching a tree in memory.
Next == AddNode \/ Find

Spec == Init /\ [][Next]_vars

\* Building a tree, saving it, loading it back and searching the loaded tree.
NextIO == AddNode \/ Save \/ Load \/ FindLoaded

SpecIO == Init /\ [][NextIO]_vars

(* --------------------------- tree geometry ----------------------------- *)

RECURSIVE AncestorsOf(_)
AncestorsOf(i) ==
  IF i = 0 THEN {} ELSE {ParentPos(i)} \cup AncestorsOf(ParentPos(i))

\* The positions of the subtree rooted at position p.
InSubtree(i, p) == i = p \/ p \in AncestorsOf(i)

LeafPositions(arr) == {i \in DOMAIN arr : IsLeaf(arr[i])}

\* The array positions an object occupies.
PositionsOf(arr, n) == {i \in DOMAIN arr : arr[i] = n}

\* The position of a leaf that find returned.
PosOf(arr, n) == SetMin(PositionsOf(arr, n))

Metadata(seq) == [i \in DOMAIN seq |-> seq[i].metadata]

MetadataSet(seq) == {seq[i].metadata : i \in DOMAIN seq}

\* The five leaves of test_longer_search, inserted in its order.
TestTree ==
  /\ factory = TestFactory
  /\ leaves = <<LeafOf[factory][LeafA], LeafOf[factory][LeafB], LeafOf[factory][LeafC],
                LeafOf[factory][LeafD], LeafOf[factory][LeafE]>>

(* ------------------------------ claims --------------------------------- *)

\* C1: union monotonicity.  In every state, so after every add_node call:
\* an element that the filter of a Leaf contains is contained in the filter
\* of every Internal node above that Leaf.
C1_UnionMonotone ==
  \A i \in LeafPositions(nodes) : \A a \in AncestorsOf(i) :
    IsNode(nodes[a]) =>
      \A e \in Kmers : get(nodes[i].graph, e) => get(nodes[a].graph, e)

\* An insertion has just put a Leaf two levels below the root, under
\* ancestors that were there before it.
C1_Witness ==
  /\ ret.op = "add_node"
  /\ \E i \in LeafPositions(nodes) :
       /\ nodes[i] = ret.arg
       /\ Cardinality(AncestorsOf(i)) >= 2
       /\ \E e \in Kmers : get(nodes[i].graph, e)

\* C2: find with the point-membership predicate returns exactly the inserted
\* Leaves whose own filter contains the element.
C2_PointFindExact ==
  (ret.op = "find" /\ ret.arg.fn = "search_kmer") =>
    /\ ret.raised = "none"
    /\ Range(ret.value) = {l \in Range(leaves) : get(l.graph, ret.arg.seq)}

\* A point query on a tree of at least four leaves that matched some of the
\* leaves and pruned others.
C2_Witness ==
  /\ ret.op = "find" /\ ret.arg.fn = "search_kmer"
  /\ Len(leaves) >= 4
  /\ Len(ret.value) >= 2
  /\ Len(ret.value) < Len(leaves)

\* C3: find with the windowed-threshold predicate returns exactly the Leaves
\* whose own filter the predicate accepts; on the five leaves a..e inserted in
\* order, "AAAAT" at 1.0 gives {a,b,c,e}, "GAAAAAT" at 0.6 gives {a,b,c,d,e}
\* and "GAAAA" at 1.0 gives {d,e}.
C3_ThresholdFindExact ==
  (ret.op = "find" /\ ret.arg.fn = "search_transcript") =>
    /\ ret.raised = "none"
    /\ Range(ret.value) =
         {l \in Range(leaves) : search_transcript(l, ret.arg.seq, ret.arg.threshold)}
    /\ TestTree =>
         /\ (ret.arg.seq = AAAAT /\ ret.arg.threshold = 10)
              => MetadataSet(ret.value) = {"a", "b", "c", "e"}
         /\ (ret.arg.seq = GAAAAAT /\ ret.arg.threshold = 6)
              => MetadataSet(ret.value) = {"a", "b", "c", "d", "e"}
         /\ (ret.arg.seq = GAAAA /\ ret.arg.threshold = 10)
              => MetadataSet(ret.value) = {"d", "e"}

\* The second search of test_longer_search has run on its five leaves.
C3_Witness ==
  /\ ret.op = "find" /\ ret.arg.fn = "search_transcript"
  /\ TestTree
  /\ ret.arg.seq = GAAAAAT
  /\ Len(ret.value) = 5

\* C4: round trip.  A search of the tree loaded from the saved tree returns
\* the same Leaves (by metadata), in the same order, as the same search of
\* the saved tree.
C4_RoundTrip ==
  ret.op = "find_loaded" =>
    Metadata(ret.value) = Metadata(find(nodes, ret.arg).value)

\* C5: the Leaf that load rebuilds at a position has the name and the
\* metadata of the Leaf that was saved from it.
C5_LeafIdentityStable ==
  loaded # None =>
    \A i \in LeafPositions(nodes) :
      /\ IsLeaf(loaded.nodes[i])
      /\ loaded.nodes[i].name = nodes[i].name
      /\ loaded.nodes[i].metadata = nodes[i].metadata

\* C6: shape.  Every Internal node has two children, every Leaf has none;
\* before any insertion the root slot is empty, and after one insertion the
\* root is that Leaf.
C6_Shape ==
  /\ \A i \in DOMAIN nodes :
       /\ IsNode(nodes[i]) =>
            \A c \in Range(ChildPos(i)) : c \in DOMAIN nodes /\ nodes[c] # None
       /\ IsLeaf(nodes[i]) =>
            \A c \in Range(ChildPos(i)) : c \in DOMAIN nodes => nodes[c] = None
  /\ Len(leaves) = 0 => nodes[0] = None
  /\ Len(leaves) = 1 => nodes[0] = leaves[1]

\* An insertion has just turned a Leaf below the root into an Internal node.
C6_Witness ==
  /\ ret.op = "add_node"
  /\ \E i \in DOMAIN nodes : i > 0 /\ IsNode(nodes[i])

\* C7: add_node never raises and never drops a leaf: every Leaf passed to
\* add_node occupies exactly one position, the tree holds as many Leaves as
\* there were calls, and in a non-empty tree the parent of the slot the next
\* call chooses is a Leaf.
C7_InsertNeverFails ==
  /\ ret.op = "add_node" => ret.raised = "none"
  /\ \A l \in Range(leaves) : Cardinality(PositionsOf(nodes, l)) = 1
  /\ Cardinality(LeafPositions(nodes)) = Len(leaves)
  /\ nodes[0] # None => IsLeaf(Extended(nodes)[ParentPos(ChosenPos(nodes))])

\* An insertion that had to extend the array, and one that found a free
\* slot in it, have both happened.
C7_Witness ==
  /\ ret.op = "add_node"
  /\ Len(leaves) = 4
  /\ ~HasNone(nodes)

\* C8 as stated: a matching Leaf in the left subtree of an Internal node
\* precedes every matching Leaf in the right subtree of that node.
C8_PreOrder ==
  ret.op = "find" =>
    \A p \in DOMAIN nodes : IsNode(nodes[p]) =>
      \A x, y \in DOMAIN ret.value :
        (/\ InSubtree(PosOf(nodes, ret.value[x]), ChildPos(p)[1])
         /\ InSubtree(PosOf(nodes, ret.value[y]), ChildPos(p)[2])) => x < y

\* C8 as amended: find returns the matching Leaves breadth first, that is by
\* increasing array position.
C8_BreadthFirstOrder ==
  ret.op = "find" =>
    \A x, y \in DOMAIN ret.value :
      x < y => PosOf(nodes, ret.value[x]) < PosOf(nodes, ret.value[y])

\* A search returned a Leaf of the root's right subtree before a deeper Leaf
\* of its left subtree.
C8_Witness ==
  /\ ret.op = "find"
  /\ \E x, y \in DOMAIN ret.value :
       /\ x < y
       /\ InSubtree(PosOf(nodes, ret.value[x]), 2)
       /\ InSubtree(PosOf(nodes, ret.value[y]), 1)

\* C9: find never returns the same Leaf twice.
C9_NoDuplicates ==
  ret.op = "find" =>
    \A x, y \in DOMAIN ret.value : x # y => ret.value[x] # ret.value[y]

\* A search of a tree of five leaves returned all of them.
C9_Witness ==
  /\ ret.op = "find"
  /\ Len(leaves) = 5
  /\ Len(ret.value) = 5

\* C10: loading a manifest whose root entry is empty raises the empty-tree
\* error and returns no tree; the manifest saved from a tree without
\* insertions is such a manifest.
C10_EmptyTreeError ==
  /\ (ret.op = "load" /\ ret.arg \in DOMAIN files /\ files[ret.arg][0] = None) =>
       (ret.raised = "ValueError: Empty tree!" /\ ret.value = None /\ loaded = None)
  /\ (ret.op = "load" /\ ret.arg \in DOMAIN files /\ nodes[0] = None) =>
       ret.raised = "ValueError: Empty tree!"

\* The empty tree was saved and load was called on its manifest.
C10_Witness ==
  /\ ret.op = "load"
  /\ leaves = <<>>
  /\ ret.arg \in DOMAIN files
  /\ files[ret.arg][0] = None

(* ---------------------- manifests from elsewhere ------------------------ *)

\* Largest number of leaves of a tree whose manifest is edited.
MaxEditedLeaves == 3

\* The fields the format requires of every record.
RequiredFields == {"name", "filename"}

\* del rec[key]
RemoveKey(rec, key) == [k \in (DOMAIN rec) \ {key} |-> rec[k]]

\* A record of the manifest lacks a required field.
MissingField(recs) ==
  \E i \in DOMAIN recs : recs[i] # None /\ ~(RequiredFields \subseteq DOMAIN recs[i])

\* load reads whatever JSON the file holds: the manifest written by save,
\* with one required field removed from one of its records.
DropField ==
  /\ ManifestFile(Tag) \in DOMAIN files
  /\ Len(leaves) <= MaxEditedLeaves
  /\ LET recs == files[ManifestFile(Tag)]
     IN /\ ~MissingField(recs)
        /\ \E i \in DOMAIN recs : \E key \in RequiredFields :
             /\ recs[i] # None
             /\ files' = WriteFile(files, ManifestFile(Tag),
                                   [recs EXCEPT ![i] = RemoveKey(@, key)])
             /\ ret' = [op |-> "edit", raised |-> "none", value |-> None,
                        arg |-> <<i, key>>]
  /\ UNCHANGED <<factory, nodes, leaves, loaded>>

\* Building a tree, saving it, and loading a manifest that lost a field.
NextManifest == AddNode \/ Save \/ DropField \/ Load

SpecManifest == Init /\ [][NextManifest]_vars

\* C11: whenever a record of the manifest lacks its name or its filter file
\* path, load raises and returns no tree.
C11_MissingFieldFails ==
  (/\ ret.op = "load"
   /\ ret.arg \in DOMAIN files
   /\ files[ret.arg][0] # None
   /\ MissingField(files[ret.arg])) =>
    (ret.raised # "none" /\ ret.value = None)

\* C12: in a saved tree the Internal node at position i is named
\* "internal.i", and no two Internal nodes share a name or a filter file path.
C12_InternalNamesDistinct ==
  LET internals == {i \in DOMAIN nodes : IsNode(nodes[i])}
  IN /\ \A i \in internals : nodes[i].name = "internal." \o ToString(i)
     /\ \A i, j \in internals : i # j =>
          /\ nodes[i].name # nodes[j].name
          /\ FilterFile(Tag, nodes[i].name) # FilterFile(Tag, nodes[j].name)
     /\ ret.op = "save" =>
          \A i \in internals :
            /\ files[ManifestFile(Tag)][i].name = "internal." \o ToString(i)
            /\ files[ManifestFile(Tag)][i].filename
                 = FilterFile(Tag, "internal." \o ToString(i))
            /\ files[ManifestFile(Tag)][i].filename \in DOMAIN files

\* A tree with four Internal nodes has been saved.
C12_Witness ==
  /\ ret.op = "save"
  /\ Cardinality({i \in DOMAIN nodes : IsNode(nodes[i])}) = 4

(* --------------------------- filter_distance --------------------------- *)

\* Largest number n of positions filter_distance compares per table.
MaxSamples == 2

\* The factories of the filters whose distance is taken: two tables of one
\* byte, two tables of two bytes and one byte, one table of one byte.
DistFactories ==
  {SmallFactory, GraphFactory(ksize, 12, 2), GraphFactory(ksize, 6, 1)}

DistLeafInputs == {LeafA, LeafD, LeafF}

\* graph.get_raw_tables(): per table its bytes, a byte being the set of
\* the bit numbers 0..7 that are set in it.
get_raw_tables(g) ==
  [t \in 1 .. Len(g.sizes) |->
     [i \in 0 .. (g.sizes[t] \div 8) |->
        {j \in 0 .. 7 : <<t, 8 * i + j>> \in g.bits}]]

\* sum(map(int, [not bool((a[i]>>j)&1) ^ bool((b[i]>>j)&1) for j in
\* range(8)])): "not" binds weaker than "^", so a bit counts when it is the
\* same in both bytes.
ByteTerm(x, y) == Cardinality({j \in 0 .. 7 : ~((j \in x) # (j \in y))})

RECURSIVE SumTerms(_, _, _, _)
SumTerms(A, B, pos, slots) ==
  IF slots = {} THEN 0
  ELSE LET sl == CHOOSE sl \in slots : TRUE
       IN ByteTerm(A[sl[1]][pos[sl]], B[sl[1]][pos[sl]])
            + SumTerms(A, B, pos, slots \ {sl})

Min(x, y) == IF x < y THEN x ELSE y

\* The <<table, sample>> pairs the loops go through: zip(A, B) stops at the
\* shorter list of tables.
Slots(a, b, n) ==
  (1 .. Min(Len(a.graph.sizes), Len(b.graph.sizes))) \X (1 .. n)

\* randint(0, len(a)): both ends included.
RandomPositions(a, b, n) ==
  LET A == get_raw_tables(a.graph)
      most == SetMin({m \in 0 .. 16 : \A t \in DOMAIN A : ArrLen(A[t]) <= m})
  IN {pos \in [Slots(a, b, n) -> 0 .. most] :
        \A sl \in Slots(a, b, n) : pos[sl] <= ArrLen(A[sl[1]])}

\* filter_distance(filter_a, filter_b, n) with the positions randint gave:
\* the exception raised, or distance and 8.0 * len(A) * n.
filter_distance(a, b, n, pos) ==
  LET A == get_raw_tables(a.graph)
      B == get_raw_tables(b.graph)
      slots == Slots(a, b, n)
  IN IF \E sl \in slots : pos[sl] >= ArrLen(A[sl[1]]) \/ pos[sl] >= ArrLen(B[sl[1]])
     THEN [raised |-> "IndexError", value |-> None]
     ELSE [raised |-> "none",
           value |-> [num |-> SumTerms(A, B, pos, slots), den |-> 8 * Len(A) * n]]

\* The tree is not involved: two filters, n and the positions randint
\* will give are drawn, and the call is pending.
InitDistance ==
  /\ factory \in Factories
  /\ nodes = [i \in {0} |-> None]
  /\ leaves = <<>>
  /\ files = NoFiles
  /\ loaded = None
  /\ \E fa, fb \in DistFactories : \E ia, ib \in DistLeafInputs :
     \E n \in 1 .. MaxSamples :
       LET a == MakeLeaf(fa, ia)
           b == MakeLeaf(fb, ib)
       IN \E pos \in RandomPositions(a, b, n) :
            ret = [op |-> "call filter_distance", raised |-> "none",
                   value |-> None,
                   arg |-> [a |-> a, b |-> b, n |-> n, pos |-> pos]]

\* filter_distance(filter_a, filter_b, n)
Distance ==
  /\ ret.op = "call filter_distance"
  /\ LET r == filter_distance(ret.arg.a, ret.arg.b, ret.arg.n, ret.arg.pos)
     IN ret' = [op |-> "filter_distance", raised |-> r.raised,
                value |-> r.value, arg |-> ret.arg]
  /\ UNCHANGED <<factory, nodes, leaves, files, loaded>>

NextDistance == Distance

SpecDistance == InitDistance /\ [][NextDistance]_vars

\* The two filters have the same table layout.
SameLayout(a, b) == a.graph.sizes = b.graph.sizes

\* C13: for two filters with identical bit tables the estimator returns 0,
\* whatever positions are sampled.
C13_IdenticalIsZero ==
  (/\ ret.op = "filter_distance"
   /\ ret.arg.a.graph = ret.arg.b.graph
   /\ ret.raised = "none") => ret.value.num = 0

\* C14: for two filters of the same layout every sampled position is a valid
\* index and the value returned lies between 0 and 1.
C14_InRange ==
  (ret.op = "filter_distance" /\ SameLayout(ret.arg.a, ret.arg.b)) =>
    /\ ret.raised = "none"
    /\ 0 <= ret.value.num
    /\ ret.value.num <= ret.value.den

\* C15: for two filters of different layouts the estimator raises instead
\* of returning a number.
C15_IncompatibleFails ==
  (ret.op = "filter_distance" /\ ~SameLayout(ret.arg.a, ret.arg.b)) =>
    ret.raised # "none"

(* ------------------------ where add_node inserts ----------------------- *)

\* The number of Leaves in the subtree rooted at position i.
LeafCount(arr, i) == Cardinality({l \in LeafPositions(arr) : InSubtree(l, i)})

\* The depth of position i: the root has depth 0.
Depth(i) == Cardinality(AncestorsOf(i))

\* The other child of the parent of position i > 0.
Sibling(i) == IF i % 2 = 1 THEN i + 1 ELSE i - 1

\* The tree under insertions alone, as build-sbt.py grows it.
NextInsert == AddNode

SpecInsert == Init /\ [][NextInsert]_vars

\* A step that is an add_node call on a tree that has a Leaf already.
IsInsertion == Len(leaves) >= 1 /\ Len(leaves') = Len(leaves) + 1

\* C16 as stated: weight-balancing descent.  The slot add_node chooses
\* depends on the array only, so the path of the next insertion is known in
\* every state: at each Internal node on the path from the root to that
\* slot, the child on the path holds at most as many Leaves as its sibling.
C16_WeightBalancedDescent ==
  nodes[0] # None =>
    LET pos == ChosenPos(nodes)
    IN \A c \in (AncestorsOf(pos) \cup {pos}) \ {0} :
         (c \in DOMAIN nodes /\ IsNode(nodes[ParentPos(c)])) =>
           LeafCount(nodes, c) <= LeafCount(nodes, Sibling(c))

\* C16 as amended: no Leaf counts are compared.  Every insertion promotes
\* the Leaf of lowest array position, a Leaf of minimum depth, and places
\* the new Leaf as its right sibling.
C16_LowestLeafFirst ==
  [][IsInsertion =>
       LET p == SetMin(LeafPositions(nodes))
       IN /\ \A l \in LeafPositions(nodes) : Depth(p) <= Depth(l)
          /\ ParentPos(ChosenPos(nodes)) = p
          /\ nodes'[ChildPos(p)[1]] = nodes[p]
          /\ nodes'[ChildPos(p)[2]] = ret'.arg
          /\ LeafPositions(nodes') =
               (LeafPositions(nodes) \ {p}) \cup Range(ChildPos(p))]_vars

\* The fifth insertion went into the left subtree of the root, which now
\* holds three Leaves against two on the right: the sixth will go there too.
C16_Witness ==
  /\ ret.op = "add_node"
  /\ Len(leaves) = 5
  /\ LeafCount(nodes, 1) = 3
  /\ LeafCount(nodes, 2) = 2
  /\ InSubtree(ChosenPos(nodes), 1)

\* The node at position i before the array was extended to hold it.
Old(i) == IF i \in DOMAIN nodes THEN nodes[i] ELSE None

\* C17: Leaf-to-Internal promotion.  When the new Leaf goes beside the Leaf
\* that occupied position p, position p holds a new Internal node, the old
\* Leaf is its left child, the new Leaf its right child, and the filter of
\* the Internal node is the union of the filters of the two.
C17_Promotion ==
  [][IsInsertion =>
       LET np == PosOf(nodes', ret'.arg)
           p  == ParentPos(np)
           c  == ChildPos(p)
       IN IsLeaf(nodes[p]) =>
            /\ IsNode(nodes'[p])
            /\ \A i \in DOMAIN nodes : nodes[i] # nodes'[p]
            /\ nodes'[c[1]] = nodes[p]
            /\ nodes'[c[2]] = ret'.arg
            /\ PositionsOf(nodes', nodes[p]) = {c[1]}
            /\ nodes'[p].graph.ksize = nodes[p].graph.ksize
            /\ nodes'[p].graph.sizes = nodes[p].graph.sizes
            /\ nodes'[p].graph.bits =
                 nodes'[c[1]].graph.bits \cup nodes'[c[2]].graph.bits]_vars

\* The third insertion has promoted the first Leaf, which was the left
\* child of the root.
C17_Witness ==
  /\ ret.op = "add_node"
  /\ Len(leaves) = 3
  /\ IsNode(nodes[1])
  /\ nodes[3] = leaves[1]
  /\ nodes[4] = ret.arg

\* The least d with 2^d >= n.
CeilLog2(n) == SetMin({d \in 0 .. n : 2 ^ d >= n})

\* C18: balance.  After N >= 1 insertions the tree is a complete binary
\* tree: its 2N - 1 nodes fill the first 2N - 1 positions, the depths of two
\* Leaves differ by at most one and the deepest Leaf has depth ceil(log2 N).
C18_Balance ==
  Len(leaves) >= 1 =>
    LET N  == Len(leaves)
        LP == LeafPositions(nodes)
    IN /\ {i \in DOMAIN nodes : nodes[i] # None} = 0 .. (2 * N - 2)
       /\ \A x, y \in LP : Depth(x) <= Depth(y) + 1
       /\ \E x \in LP : Depth(x) = CeilLog2(N)
       /\ \A x \in LP : Depth(x) <= CeilLog2(N)

\* Five Leaves: two at depth 3, three at depth 2.
C18_Witness ==
  /\ ret.op = "add_node"
  /\ Len(leaves) = 5
  /\ Cardinality({x \in LeafPositions(nodes) : Depth(x) = 3}) = 2
  /\ Cardinality({x \in LeafPositions(nodes) : Depth(x) = 2}) = 3

\* C19: exact aggregation.  The filter of every Internal node is the union
\* of the filters of the Leaves below it, and nothing more.
C19_ExactAggregation ==
  \A i \in DOMAIN nodes : IsNode(nodes[i]) =>
    nodes[i].graph.bits =
      UNION {nodes[l].graph.bits : l \in {x \in LeafPositions(nodes) : InSubtree(x, i)}}

\* Five Leaves are in, and the last one set a bit in the root that the
\* Internal node at position 2, not above it, does not have.
C19_Witness ==
  /\ ret.op = "add_node"
  /\ Len(leaves) = 5
  /\ IsNode(nodes[2])
  /\ nodes[8] = ret.arg
  /\ \E b \in nodes[0].graph.bits : b \notin nodes[2].graph.bits /\ b \in ret.arg.graph.bits

\* C20: frame of add_node.  The new Leaf is stored as it was passed; every
\* Leaf already in the tree is still there unchanged, at its position unless
\* it is the promoted one, which is now the left child of its old position;
\* an Internal node above the new Leaf changes in its filter only, any
\* other Internal node not at all; the one new Internal node is the one at
\* the promoted Leaf's position, and every other slot stays empty.
C20_Frame ==
  [][Len(leaves') = Len(leaves) + 1 =>
       LET np == PosOf(nodes', ret'.arg)
           p  == ParentPos(np)
       IN /\ PositionsOf(nodes', ret'.arg) = {np}
          /\ \A l \in LeafPositions(nodes) :
               IF l = p THEN nodes'[ChildPos(p)[1]] = nodes[l]
                        ELSE nodes'[l] = nodes[l]
          /\ \A i \in DOMAIN nodes : IsNode(nodes[i]) =>
               IF i \in AncestorsOf(np)
               THEN [nodes'[i] EXCEPT !.graph = nodes[i].graph] = nodes[i]
               ELSE nodes'[i] = nodes[i]
          /\ \A i \in DOMAIN nodes' :
               /\ (IsNode(nodes'[i]) /\ ~IsNode(Old(i))) => i = p
               /\ (Old(i) = None /\ i \notin {np, ChildPos(p)[1]}) => nodes'[i] = None]_vars

\* The fourth insertion promoted the Leaf at position 2 and left the
\* Internal node at position 1, which is not above it, without the bits of
\* the new Leaf.
C20_Witness ==
  /\ ret.op = "add_node"
  /\ Len(leaves) = 4
  /\ nodes[6] = ret.arg
  /\ IsNode(nodes[1])
  /\ \E b \in ret.arg.graph.bits : b \notin nodes[1].graph.bits

====
